---------------------------- MODULE Spec2Model ----------------------------
(***************************************************************************)
(* The insight-card dashboard extension, in its five source variants:      *)
(*                                                                         *)
(*   script_a   src/script.js lines 1-309     debounce timer, ES5          *)
(*   script_b   src/script.js lines 311-453   parameter-driven (AI state)  *)
(*   part_000   src/unnamed/part_000          debounce timer, async/await  *)
(*   part_001   src/unnamed/part_001          isRefreshing flag + typing   *)
(*   part_002   src/unnamed/part_002          isRefreshing flag            *)
(*                                                                         *)
(* One JavaScript event loop: every action below is one macrotask (a host  *)
(* event, a timer callback, the settling of a host promise) together with  *)
(* all the promise reactions (microtasks) it runs before the next task.    *)
(* Time is discrete: a timer armed with the debounce delay carries the     *)
(* ticks left until it is due, and a due timer fires before time moves on. *)
(*                                                                         *)
(* Five specifications:                                                    *)
(*   Spec       the coordinator of each variant: initialization, host      *)
(*              notifications, debounce timers, fetches, status, container *)
(*   SpecFair   Spec with weak fairness of timers and host promises        *)
(*   SpecCards  the card renderer called on a table, and the typewriter    *)
(*              timers it starts (a call falls between two callbacks)      *)
(*   SpecText   escapeHtml, highlightNumbers and the finished card body    *)
(*              for a given text                                           *)
(*   SpecStatus part_001: the typeText intervals on the status element     *)
(***************************************************************************)
EXTENDS Naturals, Sequences, FiniteSets

VARIABLES
    variant,            \* which source variant runs
    sheetPresent,       \* host: a worksheet named INSIGHTS_WORKSHEET_NAME exists
    phase,              \* "start" | "initializing" | "findParam" | "ready" | "failed" | "demo"
    dashboard,          \* dashboard # null
    aiStateParam,       \* script_b: aiStateParam # null
    filterSubscribed,   \* a FilterChanged listener is registered
    paramSub,           \* "none" | "pending" | "subscribed" | "absent" (getParametersAsync)
    splash,             \* ticks until the splash timeout fires; NoTimer when none
    loadingTimeoutId,   \* 0 = null, else the id setTimeout returned
    timers,             \* pending debounce timers: set of [id, rem]
    isRefreshing,       \* part_001 / part_002
    fetches,            \* ids of outstanding getSummaryDataAsync calls (0: the initial load)
    writes,             \* script_b: outstanding changeValueAsync writes, [id, value]
    paramValue,         \* script_b: value last written to the AI state parameter
    status,             \* text of #status
    tableVisible,       \* #insights-table style.visibility # "hidden"
    container,          \* content of #insights-table
    renderedFrom,       \* history: the table the container's cards were built from
    nNotify,            \* history: host notifications delivered
    nFetch,             \* history: getSummaryDataAsync calls started
    sinceLast,          \* history: ticks since the last notification (capped)
    burstStarts,        \* history: refreshInsights calls made by timers of the current burst
    earlyStart,         \* history: a burst's refresh started before the delay had elapsed
    lastFailed,         \* history: a change cycle whose fetch failed settled, no notification since
    unserved,           \* history: a notification arrived after the last fetch was started
    lastStarted,        \* history: id of the getSummaryDataAsync call started last (0: initial)
    lastRendered,       \* history: id of the fetch whose rows were rendered last
    writeRejected,      \* history: a changeValueAsync write was rejected
    typers,             \* part_001: the typeText intervals started on the status element
    anims,              \* the typewriters started so far, one record per card body
    nRender,            \* history: direct calls of the card renderer
    called,             \* history: the table the card renderer was last called with
    input,              \* the argument of a direct call of escapeHtml / highlightNumbers
    applied             \* the function last applied to input, and its result

vars == <<variant, sheetPresent, phase, dashboard, aiStateParam, filterSubscribed,
          paramSub, splash, loadingTimeoutId, timers, isRefreshing, fetches, writes,
          paramValue, status, tableVisible, container, renderedFrom, nNotify, nFetch, sinceLast,
          burstStarts, earlyStart, lastFailed, unserved, lastStarted, lastRendered,
          writeRejected, typers, anims, nRender, called,
          input, applied>>

-----------------------------------------------------------------------------
(* Bounds of the model *)

\* host notifications delivered in one run
MaxNotify == 3

\* the debounce delay (currentDelayMs) and the splash delay, in ticks
DelayTicks == 2

NoTimer == DelayTicks + 1

\* direct calls of the card renderer in one run
MaxRenders == 2

-----------------------------------------------------------------------------
(* Variants *)

DebounceVariants == {"script_a", "part_000"}
FlagVariants     == {"part_001", "part_002"}
ParamVariants    == {"script_b"}
Variants         == DebounceVariants \cup FlagVariants \cup ParamVariants

-----------------------------------------------------------------------------
(* Strings: TLC treats a string as the sequence of its characters *)

CharAt(s, i) == SubSeq(s, i, i)

StartsWith(s, t) == Len(s) >= Len(t) /\ SubSeq(s, 1, Len(t)) = t

\* String.prototype.indexOf(t) !== -1
Contains(s, t) == \E i \in 1..(Len(s) + 1) : StartsWith(SubSeq(s, i, Len(s)), t)

UpperLetters == "ABCDEFGHIJKLMNOPQRSTUVWXYZ"
LowerLetters == "abcdefghijklmnopqrstuvwxyz"

LowerChar(c) ==
    IF \E i \in 1..26 : CharAt(UpperLetters, i) = c
    THEN CharAt(LowerLetters, CHOOSE i \in 1..26 : CharAt(UpperLetters, i) = c)
    ELSE c

\* The concatenation pieces[lo] \o ... \o pieces[hi], by halving
RECURSIVE ConcatRange(_, _, _)
ConcatRange(pieces, lo, hi) ==
    IF lo > hi THEN ""
    ELSE IF lo = hi THEN pieces[lo]
    ELSE LET mid == (lo + hi) \div 2
         IN  ConcatRange(pieces, lo, mid) \o ConcatRange(pieces, mid + 1, hi)

toLowerCase(s) ==
    ConcatRange([i \in 1..Len(s) |-> LowerChar(CharAt(s, i))], 1, Len(s))

\* String.prototype.trim, for the space character
trim(s) ==
    LET solid == {i \in 1..Len(s) : CharAt(s, i) # " "}
    IN  IF solid = {} THEN ""
        ELSE SubSeq(s, CHOOSE i \in solid : \A j \in solid : i <= j,
                       CHOOSE i \in solid : \A j \in solid : j <= i)

\* A faulty escape: the ampersand itself is left alone
EscapeChar_noAmp(c, apostropheToo) ==
    IF c = "\"" THEN "&quot;"
    ELSE IF c = "<" THEN "&lt;"
    ELSE IF c = ">" THEN "&gt;"
    ELSE IF apostropheToo /\ c = "'" THEN "&#39;"
    ELSE c

\* One character of escapeHtml: & first, then the quotes and angle brackets.
\* The replacements never produce a character a later replacement rewrites,
\* so the chained String.replace calls act character by character.
EscapeChar(c, apostropheToo) ==
    IF c = "&" THEN "&amp;"
    ELSE IF c = "\"" THEN "&quot;"
    ELSE IF c = "<" THEN "&lt;"
    ELSE IF c = ">" THEN "&gt;"
    ELSE IF apostropheToo /\ c = "'" THEN "&#39;"
    ELSE c

EscapeChars(s, apostropheToo) ==
    ConcatRange([i \in 1..Len(s) |-> EscapeChar(CharAt(s, i), apostropheToo)], 1, Len(s))

\* escapeHtml of script_a and part_000 (null, undefined and "" give "")
escapeHtml(text) == EscapeChars(text, FALSE)

\* escapeHtml of part_002, which also escapes the apostrophe
escapeHtml_p002(str) == EscapeChars(str, TRUE)

\* The character references the HTML parser decodes here
Entities == {<<"&amp;", "&">>, <<"&quot;", "\"">>, <<"&lt;", "<">>, <<"&gt;", ">">>,
             <<"&#39;", "'">>}

EntityAt(s, i) == {e \in Entities : StartsWith(SubSeq(s, i, Len(s)), e[1])}

\* What the HTML parser makes of character references in text or in an
\* attribute value: each reference gives its character, every other
\* character stands for itself.  (A reference starts with & and holds no
\* other &, so two references never overlap.)
DecodeEntities(s) ==
    LET Inside(i) == \E j \in 1..(i - 1) :
                        \E e \in EntityAt(s, j) : j + Len(e[1]) > i
        Piece(i) == IF Inside(i) THEN ""
                    ELSE IF EntityAt(s, i) # {}
                         THEN (CHOOSE e \in EntityAt(s, i) : TRUE)[2]
                    ELSE CharAt(s, i)
    IN  ConcatRange([i \in 1..Len(s) |-> Piece(i)], 1, Len(s))

\* The part of s before the first occurrence of the character q
UpTo(s, q) ==
    LET hits == {i \in 1..Len(s) : CharAt(s, i) = q}
    IN  IF hits = {} THEN s
        ELSE SubSeq(s, 1, (CHOOSE i \in hits : \A j \in hits : i <= j) - 1)

\* getAttribute("data-fulltext") of an element written as
\*   data-fulltext=<q> + escaped + <q>
\* the value ends at the first quote character q and is entity-decoded.
AttributeValue(escaped, q) == DecodeEntities(UpTo(escaped, q))

-----------------------------------------------------------------------------
(* Number highlighting (part_001 and part_002) *)

Digits == "0123456789"

\* c is one of the characters of the string chars
InChars(c, chars) == \E k \in 1..Len(chars) : CharAt(chars, k) = c

\* Length of the longest run of characters of chars that starts at s[i]: a
\* greedy character class with *
RunLen(s, i, chars) ==
    LET stops == {k \in i..Len(s) : ~InChars(CharAt(s, k), chars)}
    IN  IF i > Len(s) THEN 0
        ELSE IF stops = {} THEN Len(s) - i + 1
        ELSE (CHOOSE k \in stops : \A m \in stops : k <= m) - i

\* part_001 line 56: /([$...]?\d[\d.,]*\s*(?:K|M|%|bps)?)/g, the length of the
\* match that starts at s[i], 0 when there is none.  Of the currency symbols
\* only $ is modelled, of white space only the space.  Every part after the
\* first digit is optional, so the greedy match never backtracks.
MatchLen_p001(s, i) ==
    LET cur  == IF CharAt(s, i) = "$" THEN 1 ELSE 0
        d    == i + cur
        run  == RunLen(s, d + 1, "0123456789.,")
        sp   == RunLen(s, d + 1 + run, " ")
        q    == d + 1 + run + sp
        rest == SubSeq(s, q, Len(s))
        unit == IF StartsWith(rest, "K") \/ StartsWith(rest, "M") \/ StartsWith(rest, "%")
                THEN 1
                ELSE IF StartsWith(rest, "bps") THEN 3 ELSE 0
    IN  IF d <= Len(s) /\ InChars(CharAt(s, d), Digits)
        THEN cur + 1 + run + sp + unit
        ELSE 0

\* part_002 line 188: /(\$?\d[\d,]*(\.\d+)?%?)/g, likewise
MatchLen_p002(s, i) ==
    LET cur  == IF CharAt(s, i) = "$" THEN 1 ELSE 0
        d    == i + cur
        run  == RunLen(s, d + 1, "0123456789,")
        p    == d + 1 + run
        frac == IF /\ p + 1 <= Len(s)
                   /\ CharAt(s, p) = "."
                   /\ InChars(CharAt(s, p + 1), Digits)
                THEN 1 + RunLen(s, p + 1, Digits)
                ELSE 0
        pct  == IF p + frac <= Len(s) /\ CharAt(s, p + frac) = "%" THEN 1 ELSE 0
    IN  IF d <= Len(s) /\ InChars(CharAt(s, d), Digits)
        THEN cur + 1 + run + frac + pct
        ELSE 0

\* String.prototype.replace with a global pattern and the replacement
\* open + "$1" + close: matches are taken left to right and never overlap;
\* lens[i] is the length of the match that starts at s[i]
RECURSIVE WrapMatches(_, _, _, _, _)
WrapMatches(s, lens, i, open, close) ==
    IF i > Len(s) THEN ""
    ELSE IF lens[i] > 0
         THEN open \o SubSeq(s, i, i + lens[i] - 1) \o close
                   \o WrapMatches(s, lens, i + lens[i], open, close)
         ELSE CharAt(s, i) \o WrapMatches(s, lens, i + 1, open, close)

SpanOpen    == "<span class=\"insight-number\">"
SpanClose   == "</span>"
StrongOpen  == "<strong>"
StrongClose == "</strong>"

\* highlightNumbers of part_001 (lines 51-59)
highlightNumbers_p001(str) ==
    IF str = "" THEN ""
    ELSE WrapMatches(str, [i \in 1..Len(str) |-> MatchLen_p001(str, i)], 1,
                     SpanOpen, SpanClose)

\* highlightNumbers of part_002 (lines 186-189)
highlightNumbers_p002(str) ==
    IF str = "" THEN ""
    ELSE WrapMatches(str, [i \in 1..Len(str) |-> MatchLen_p002(str, i)], 1,
                     StrongOpen, StrongClose)

\* s[j] opens a tag for the HTML parser: < followed by a letter or by /
TagOpenAt(s, j) ==
    /\ j < Len(s)
    /\ CharAt(s, j) = "<"
    /\ InChars(CharAt(s, j + 1), UpperLetters \o LowerLetters \o "/")

\* s[i] lies inside a tag: a tag opened at or before it and was not closed by
\* a > before it (a tag left open at the end of the input is dropped)
InTag(s, i) ==
    \E j \in 1..i : /\ TagOpenAt(s, j)
                    /\ \A k \in j..(i - 1) : CharAt(s, k) # ">"

\* element.textContent after element.innerHTML = html: the tags are gone,
\* the character references outside them are decoded
MarkupText(html) ==
    LET InsideEntity(i) == \E j \in 1..(i - 1) :
                              /\ ~InTag(html, j)
                              /\ \E e \in EntityAt(html, j) : j + Len(e[1]) > i
        Piece(i) == IF InTag(html, i) \/ InsideEntity(i) THEN ""
                    ELSE IF EntityAt(html, i) # {}
                         THEN (CHOOSE e \in EntityAt(html, i) : TRUE)[2]
                    ELSE CharAt(html, i)
    IN  ConcatRange([i \in 1..Len(html) |-> Piece(i)], 1, Len(html))

-----------------------------------------------------------------------------
(* The summary table the host returns, and the card renderers *)

SetMax(S) == CHOOSE x \in S : \A y \in S : y <= x
SetMin(S) == CHOOSE x \in S : \A y \in S : x <= y

\* Text constants of the renderers
BrandDash_a        == "---"   \* the three characters script_a line 295 holds for a dash
BrandDash          == "-"     \* the em dash of part_000 / part_001
Placeholder_a      == "No narrative for this combination."
Placeholder_p000   == "No AI insight is available yet for this combination."
Placeholder_p001   == "No data"
Placeholder_p002   == "Null"

\* Column indices are 1-based here; 0 stands for undefined (script_a,
\* part_000, part_002) and for findIndex's -1 (part_001).

\* colIndex[name] of script_a / part_000: the loop overwrites, the last
\* column of that name wins
colIndex(columns, name) ==
    LET hits == {i \in 1..Len(columns) : columns[i] = name}
    IN  IF hits = {} THEN 0 ELSE SetMax(hits)

\* columns.findIndex(c => c.fieldName === name) of part_001: the first hit
findIndex(columns, name) ==
    LET hits == {i \in 1..Len(columns) : columns[i] = name}
    IN  IF hits = {} THEN 0 ELSE SetMin(hits)

\* columns.findIndex(c => c.fieldName.indexOf(part) !== -1) of part_001
findIndexContaining(columns, part) ==
    LET hits == {i \in 1..Len(columns) : Contains(columns[i], part)}
    IN  IF hits = {} THEN 0 ELSE SetMin(hits)

\* buildColumnIndex of part_002: keys are trimmed and lower-cased, a column
\* without a fieldName is skipped, the last column of a key wins
buildColumnIndex(columns, key) ==
    LET hits == {i \in 1..Len(columns) :
                    columns[i] # "" /\ toLowerCase(trim(columns[i])) = key}
    IN  IF hits = {} THEN 0 ELSE SetMax(hits)

\* a ?? b on indices
Coalesce(a, b) == IF a # 0 THEN a ELSE b

\* The narrative column, per variant
insightIdx_a(columns) ==
    Coalesce(colIndex(columns, "Estimated Spend - Insight1"),
    Coalesce(colIndex(columns, "Estimated Spend - Insight"),
             colIndex(columns, "Estimated Spend - Insight 1")))

insightIdx_p001(columns) == findIndexContaining(columns, "Insight")

insightIdx_p002(columns) ==
    Coalesce(buildColumnIndex(columns, "estimated spend - insight1"),
    Coalesce(buildColumnIndex(columns, "insight"),
             buildColumnIndex(columns, "ai insight")))

\* The five column indices a renderer resolves
Indices(v, columns) ==
    IF v \in {"script_a", "part_000"} THEN
        [brand   |-> colIndex(columns, "Brand"),
         hcp     |-> colIndex(columns, "Hcp Dtc Identifier"),
         source  |-> colIndex(columns, "Source"),
         date    |-> colIndex(columns, "Current Period Date Range"),
         insight |-> insightIdx_a(columns)]
    ELSE IF v = "part_001" THEN
        [brand   |-> findIndex(columns, "Brand"),
         hcp     |-> findIndex(columns, "Hcp Dtc Identifier"),
         source  |-> findIndex(columns, "Source"),
         date    |-> findIndex(columns, "Current Period Date Range"),
         insight |-> insightIdx_p001(columns)]
    ELSE
        [brand   |-> Coalesce(buildColumnIndex(columns, "brand"),
                              buildColumnIndex(columns, "brandname")),
         hcp     |-> Coalesce(buildColumnIndex(columns, "hcp dtc identifier"),
                              buildColumnIndex(columns, "hcp dtc")),
         source  |-> buildColumnIndex(columns, "source"),
         date    |-> Coalesce(buildColumnIndex(columns, "current period date range"),
                              buildColumnIndex(columns, "date range")),
         insight |-> insightIdx_p002(columns)]

\* row[idx].formattedValue, or "" for an unresolved column.  Only part_002
\* (getVal) guards idx >= row.length; elsewhere such a read throws.
CellThrows(v, row, idx) == v # "part_002" /\ idx # 0 /\ idx > Len(row)
Cell(row, idx) == IF idx = 0 \/ idx > Len(row) THEN "" ELSE row[idx]

\* The badges of a card header: hcp then source, each only when non-empty
Badges(hcp, source) ==
    (IF hcp # "" THEN <<hcp>> ELSE <<>>) \o (IF source # "" THEN <<source>> ELSE <<>>)

\* Text of an element whose content was written as escaped markup
TextOf(escaped) == DecodeEntities(escaped)

\* The narrative of a row as the renderer reads it
Narrative(v, columns, row) == Cell(row, Indices(v, columns).insight)

\* script_a lines 283-302: safeInsight = insight || placeholder; the body
\* text is carried in a single-quoted data-fulltext attribute
Card_a(row, ix) ==
    LET brand   == Cell(row, ix.brand)
        insight == Cell(row, ix.insight)
        safeInsight == IF insight # "" THEN insight ELSE Placeholder_a
    IN  [brand  |-> TextOf(escapeHtml(IF brand # "" THEN brand ELSE BrandDash_a)),
         badges |-> Badges(TextOf(escapeHtml(Cell(row, ix.hcp))),
                           TextOf(escapeHtml(Cell(row, ix.source)))),
         date   |-> TextOf(escapeHtml(Cell(row, ix.date))),
         body   |-> AttributeValue(escapeHtml(safeInsight), "'"),
         isPlaceholder |-> insight = ""]

\* part_000 lines 266-296: "Null", "(Null)" and empty are nullish; the body
\* text is carried in a double-quoted data-fulltext attribute
Card_p000(row, ix) ==
    LET brandVal   == Cell(row, ix.brand)
        insightVal == Cell(row, ix.insight)
        isNullish  == insightVal = "" \/ insightVal = "Null" \/ insightVal = "(Null)"
        safeInsight == IF isNullish THEN Placeholder_p000 ELSE insightVal
    IN  [brand  |-> TextOf(escapeHtml(IF brandVal # "" THEN brandVal ELSE BrandDash)),
         badges |-> Badges(TextOf(escapeHtml(Cell(row, ix.hcp))),
                           TextOf(escapeHtml(Cell(row, ix.source)))),
         date   |-> TextOf(escapeHtml(Cell(row, ix.date))),
         body   |-> AttributeValue(escapeHtml(safeInsight), "\""),
         isPlaceholder |-> isNullish]

\* part_001 lines 239-292: DOM nodes filled through textContent; a falsy
\* narrative gives <em>No data</em>, any other text is typed by animateCardBody
Card_p001(row, ix) ==
    LET brand       == Cell(row, ix.brand)
        insightText == Cell(row, ix.insight)
    IN  [brand  |-> IF brand # "" THEN brand ELSE BrandDash,
         badges |-> Badges(Cell(row, ix.hcp), Cell(row, ix.source)),
         date   |-> Cell(row, ix.date),
         body   |-> IF insightText # "" THEN insightText ELSE Placeholder_p001,
         isPlaceholder |-> insightText = ""]

\* part_002 lines 210-235: a falsy narrative gives <em>Null</em>, any other
\* text is escaped (and number-highlighted) into the body
Card_p002(row, ix) ==
    LET text == Cell(row, ix.insight)
    IN  [brand  |-> TextOf(escapeHtml_p002(Cell(row, ix.brand))),
         badges |-> Badges(TextOf(escapeHtml_p002(Cell(row, ix.hcp))),
                           TextOf(escapeHtml_p002(Cell(row, ix.source)))),
         date   |-> TextOf(escapeHtml_p002(Cell(row, ix.date))),
         body   |-> IF text # ""
                    THEN MarkupText(highlightNumbers_p002(escapeHtml_p002(text)))
                    ELSE Placeholder_p002,
         isPlaceholder |-> text = ""]

Card(v, row, ix) ==
    IF v = "script_a" THEN Card_a(row, ix)
    ELSE IF v = "part_000" THEN Card_p000(row, ix)
    ELSE IF v = "part_001" THEN Card_p001(row, ix)
    ELSE Card_p002(row, ix)

\* Contents of #insights-table
Content(kind, cards) == [kind |-> kind, cards |-> cards]
InitialContent  == Content("initial", <<>>)
\* A faulty renderer: an empty card grid in place of the message
NotFoundContent_grid == Content("cards", <<>>)
NotFoundContent == Content("notFound", <<>>)     \* <em>Insights worksheet "..." not found.</em>
NoInsights      == Content("noInsights", <<>>)   \* No insights for the current selection.
ErrorContent    == Content("error", <<>>)        \* part_002: <em>Error loading insights data.</em>
ClearedContent  == Content("cleared", <<>>)      \* part_001: container.innerHTML = ""
DemoContent     == Content("demo", <<>>)         \* part_002: demoRender

\* A row read throws when a resolved column lies beyond the row's cells
RowThrows(v, row, ix) ==
    \E f \in {"brand", "hcp", "source", "date", "insight"} : CellThrows(v, row, ix[f])

\* part_000 lines 203-211: the debug preview reads every column of the first
\* rows (at most 3) before rendering
PreviewThrows(table) ==
    \E i \in 1..Len(table.data) :
        i <= 3 /\ Len(table.data[i]) < Len(table.columns)

\* The tables the host may return
StdColumns == <<"Brand", "Source", "Estimated Spend - Insight1">>

EmptyTable  == [columns |-> StdColumns, data |-> <<>>]
TextTable   == [columns |-> StdColumns,
                data |-> << <<"Acme", "Google", "Spend up $25K & 12.5%">> >>]
NullsTable  == [columns |-> StdColumns,
                data |-> << <<"Acme", "", "">>,
                            <<"Bolt", "", "Null">>,
                            <<"", "TV", "(Null)">> >>]
\* a malformed answer: a row with fewer cells than columns
RaggedTable == [columns |-> StdColumns, data |-> << <<"Acme">> >>]

Tables == {EmptyTable, TextTable, NullsTable, RaggedTable}

\* Tables for the renderer called on its own: two rows in a given order (a
\* number, and text with markup characters in it), and a column set that
\* holds the narrative under another name containing "Insight"
PairTable     == [columns |-> StdColumns,
                  data |-> << <<"Bolt", "TV", "$5K">>,
                              <<"Acme", "Google", "<b>1">> >>]
FallbackTable == [columns |-> <<"Brand", "Key Insight">>,
                  data |-> << <<"Acme", "3%">> >>]

CardTables == {EmptyTable, PairTable, FallbackTable, RaggedTable}

\* No table: the container holds no cards
NoTable == [columns |-> <<>>, data |-> <<>>]

\* renderInsightsAsCards / renderInsightsCards on a fetched table: whether
\* the call throws, and the cards it builds otherwise
RenderOf(v, table) ==
    LET ix     == Indices(v, table.columns)
        rows   == table.data
        throws == \E i \in 1..Len(rows) : RowThrows(v, rows[i], ix)
        cards  == [i \in 1..Len(rows) |-> Card(v, rows[i], ix)]
    IN  IF Len(rows) = 0 THEN [threw |-> FALSE, content |-> NoInsights]
        ELSE IF throws THEN [threw |-> TRUE, content |-> ClearedContent]
        ELSE [threw |-> FALSE, content |-> Content("cards", cards)]

RenderVariants == {"script_a", "part_000", "part_001", "part_002"}

\* RenderOf, tabulated once over the tables of the model
Rendered == [v \in RenderVariants |-> [t \in Tables \cup CardTables |-> RenderOf(v, t)]]

\* A faulty renderer: the new cards are appended to the cards already there
Render_appends(v, table, before, beforeFrom) ==
    LET r == Rendered[v][table]
    IN  [threw |-> r.threw,
         content |-> IF before.kind = "cards"
                     THEN Content("cards", before.cards \o r.content.cards)
                     ELSE r.content,
         from |-> table]

\* What the container holds after the renderer ran on a table (and the table
\* its cards come from), given what it held before, and whether the call
\* threw.  script_a, part_000 and part_002 build a string and assign innerHTML last, so a throw leaves the
\* container as it was; part_001 empties the container first and appends the
\* grid last, so a throw leaves it empty.
Render(v, table, before, beforeFrom) ==
    LET r == Rendered[v][table]
    IN  IF r.threw /\ v # "part_001"
        THEN [threw |-> TRUE, content |-> before, from |-> beforeFrom]
        ELSE [threw |-> r.threw, content |-> r.content,
              from |-> IF r.content.kind = "cards" THEN table ELSE NoTable]

-----------------------------------------------------------------------------
(* Status texts (the ellipsis character is written "...") *)

ST_Initial        == ""
ST_ReadyListening == "AI Insights ready. Listening for filter changes..."
ST_Initializing   == "Initializing AI Insights..."
ST_InitFailed     == "Failed to initialize extension (see log)."
ST_InitFailed_p001 == "AI Insights extension failed to initialize."
ST_Demo           == "Running outside Tableau (demo mode)."
ST_Loading        == "Loading your Insight..."
ST_Generated      == "AI Generated Insights"
ST_ErrUpdating    == "Error updating AI Insights (see log)."
ST_ErrLoading     == "Error loading insights (see log)."
TITLE_TEXT          == ST_ReadyListening
STATUS_LOADING_TEXT == "Updating insights for your current selection..."
ST_ErrUpdating_p001 == "Error updating insights (see log)."

ErrorTexts == {ST_ErrUpdating, ST_ErrLoading, ST_InitFailed, ST_ErrUpdating_p001,
               ST_InitFailed_p001}

-----------------------------------------------------------------------------
(* State *)

hostVars  == <<variant, sheetPresent>>
initVars  == <<phase, dashboard, aiStateParam, filterSubscribed, paramSub>>
timerVars == <<splash, loadingTimeoutId, timers>>
domVars   == <<status, tableVisible, container, renderedFrom>>
histVars  == <<nNotify, nFetch, sinceLast, burstStarts, earlyStart, lastFailed, unserved>>
cardVars  == <<anims, nRender, called>>
textVars  == <<input, applied>>
orderVars == <<lastStarted, lastRendered, writeRejected>>

Timer(id, rem) == [id |-> id, rem |-> rem]
Write(id, value) == [id |-> id, value |-> value]

\* The page as loaded, before DOMContentLoaded
Loaded ==
    /\ variant \in Variants
    /\ sheetPresent \in BOOLEAN
    /\ phase = "start"
    /\ dashboard = FALSE
    /\ aiStateParam = FALSE
    /\ filterSubscribed = FALSE
    /\ paramSub = "none"
    /\ splash = NoTimer
    /\ loadingTimeoutId = 0
    /\ timers = {}
    /\ isRefreshing = FALSE
    /\ fetches = {}
    /\ writes = {}
    /\ paramValue = "unset"
    /\ status = ST_Initial
    /\ tableVisible = TRUE
    /\ container = InitialContent
    /\ renderedFrom = NoTable
    /\ nNotify = 0
    /\ nFetch = 0
    /\ sinceLast = DelayTicks
    /\ burstStarts = 0
    /\ earlyStart = FALSE
    /\ lastFailed = FALSE
    /\ unserved = FALSE
    /\ lastStarted = 0
    /\ lastRendered = 0
    /\ writeRejected = FALSE
    /\ typers = <<>>
    /\ anims = <<>>
    /\ nRender = 0
    /\ called = NoTable

\* No function applied yet
NotApplied == [fn |-> "none", out |-> ""]

Init ==
    /\ Loaded
    /\ input = ""
    /\ applied = NotApplied

\* The timers that are due, and the one the event loop runs first: timers of
\* equal delay fire in the order they were armed, and ids grow with arming.
DueTimers == {t \in timers : t.rem = 0}
NothingDue == DueTimers = {} /\ splash # 0

-----------------------------------------------------------------------------
(* Initialization: the DOMContentLoaded handlers *)

\* The handler arms the splash timeout (not in part_002) and calls
\* tableau.extensions.initializeAsync(), which stays pending.
DOMContentLoaded ==
    /\ phase = "start"
    /\ phase' = "initializing"
    /\ splash' = IF variant = "part_002" THEN NoTimer ELSE DelayTicks
    /\ UNCHANGED <<cardVars, textVars, hostVars, orderVars, typers, dashboard, aiStateParam, filterSubscribed, paramSub,
                   loadingTimeoutId, timers, isRefreshing, fetches, writes, paramValue,
                   domVars, histVars>>

\* No Extensions API (opened in a browser): the try block throws, demo mode.
DOMContentLoaded_demo ==
    /\ phase = "start"
    /\ phase' = "demo"
    /\ splash' = IF variant = "part_002" THEN NoTimer ELSE DelayTicks
    /\ status' = IF variant = "part_002" THEN status ELSE ST_Demo
    /\ container' = IF variant = "part_002" THEN DemoContent ELSE container
    /\ UNCHANGED <<cardVars, textVars, hostVars, orderVars, typers, dashboard, aiStateParam, filterSubscribed, paramSub,
                   loadingTimeoutId, timers, isRefreshing, fetches, writes, paramValue,
                   tableVisible, renderedFrom, histVars>>

\* The splash setTimeout callback
SplashTimeout ==
    /\ splash = 0
    /\ splash' = NoTimer
    /\ status' = CASE variant = "script_a" -> ST_ReadyListening
                   [] variant = "part_000" -> ST_Initializing
                   [] variant = "script_b" -> ST_Initializing
                   [] variant = "part_001" -> TITLE_TEXT
                   [] OTHER -> status
    /\ UNCHANGED <<cardVars, textVars, hostVars, orderVars, typers, initVars, loadingTimeoutId, timers, isRefreshing, fetches,
                   writes, paramValue, tableVisible, container, renderedFrom, histVars>>

\* initializeAsync() resolved: the dashboard is kept, the listeners are
\* registered and (all but script_b) the initial refreshInsights() is called,
\* outside the isRefreshing flag and outside the debounce timer.
InitializeResolved ==
    /\ phase = "initializing"
    /\ dashboard' = TRUE
    /\ IF variant = "script_b"
       THEN /\ phase' = "findParam"
            /\ status' = ST_ReadyListening
            /\ UNCHANGED <<filterSubscribed, paramSub, fetches, nFetch, container,
                           renderedFrom>>
       ELSE /\ phase' = "ready"
            /\ filterSubscribed' = sheetPresent
            /\ paramSub' = "pending"
            /\ status' = IF variant = "part_000" THEN ST_Generated ELSE status
            /\ IF sheetPresent
               THEN /\ fetches' = {0}
                    /\ nFetch' = nFetch + 1
                    /\ UNCHANGED <<container, renderedFrom>>
               ELSE /\ container' = NotFoundContent
                    /\ renderedFrom' = NoTable
                    /\ UNCHANGED <<fetches, nFetch>>
    /\ UNCHANGED <<cardVars, textVars, hostVars, orderVars, typers, aiStateParam, timerVars, isRefreshing, writes, paramValue,
                   tableVisible, nNotify, sinceLast, burstStarts, earlyStart, lastFailed,
                   unserved>>

\* initializeAsync() rejected: the catch handler reports it
InitializeRejected ==
    /\ phase = "initializing"
    /\ phase' = "failed"
    /\ status' = CASE variant \in {"script_a", "part_000", "script_b"} -> ST_InitFailed
                   [] variant = "part_001" -> ST_InitFailed_p001
                   [] OTHER -> status
    /\ UNCHANGED <<cardVars, textVars, hostVars, orderVars, typers, dashboard, aiStateParam, filterSubscribed, paramSub,
                   timerVars, isRefreshing, fetches, writes, paramValue, tableVisible,
                   container, renderedFrom, histVars>>

\* A faulty chain: the listener is registered whatever the lookup gave
SubscribesAfterLookup_regardless(found) == TRUE

\* script_b: subscribeToFilterChanges is reached only when findAiStateParameter
\* did not throw, because it sits in a later then-handler of the same chain
SubscribesAfterLookup(found) == found

\* script_b: findAiStateParameter settled; without the parameter it throws
\* and the catch handler reports it, with it the filter listener is registered
FindAiStateParameterSettled(found) ==
    /\ variant = "script_b"
    /\ phase = "findParam"
    /\ filterSubscribed' = (SubscribesAfterLookup(found) /\ sheetPresent)
    /\ IF found
       THEN /\ aiStateParam' = TRUE
            /\ phase' = "ready"
            /\ status' = ST_ReadyListening
       ELSE /\ phase' = "failed"
            /\ status' = ST_InitFailed
            /\ UNCHANGED aiStateParam
    /\ UNCHANGED <<cardVars, textVars, hostVars, orderVars, typers, dashboard, paramSub, timerVars, isRefreshing, fetches,
                   writes, paramValue, tableVisible, container, renderedFrom, histVars>>

\* subscribeToDateRangeParameter: getParametersAsync() settled; the listener
\* is registered only when the parameter is among the answer
GetParametersSettled(found) ==
    /\ paramSub = "pending"
    /\ paramSub' = IF found THEN "subscribed" ELSE "absent"
    /\ UNCHANGED <<cardVars, textVars, hostVars, orderVars, typers, phase, dashboard, aiStateParam, filterSubscribed, timerVars,
                   isRefreshing, fetches, writes, paramValue, domVars, histVars>>

\* The host delivers a notification of this kind only to a registered listener
Delivers(kind) ==
    /\ nNotify < MaxNotify
    /\ \/ kind = "filter" /\ filterSubscribed
       \/ kind = "parameter" /\ paramSub = "subscribed"

-----------------------------------------------------------------------------
(* Debounce variants: script_a (src/script.js 151-218) and part_000 *)

\* A faulty caller: only the then-handler shows the table again
ShowsTableAfter_thenOnly(failed) == ~failed

\* The timer callback's then-handler and its catch-handler both set the
\* table's visibility to "visible"
ShowsTableAfter(failed) == TRUE

\* A faulty failure path: the container is emptied
ContainerAfterFailure_cleared(v, before) == ClearedContent

\* The card container once a rejected getSummaryDataAsync was handled: only
\* part_002 touches it (its catch block writes the error message), the other
\* variants report the failure in the status line and the log
ContainerAfterFailure(v, before) == IF v = "part_002" THEN ErrorContent ELSE before

\* clearTimeout(id): a pending timer of that id is removed; clearing a timer
\* that already fired (or null) does nothing
clearTimeout(ts, id) == {t \in ts : t.id # id}

\* A faulty timer: setInterval in place of setTimeout, the fired timer is
\* armed again
AfterFire_interval(ts, t) == (ts \ {t}) \cup {Timer(t.id, DelayTicks)}

\* setTimeout: the callback runs once, the fired timer is gone
AfterFire(ts, t) == ts \ {t}

\* status after a change-triggered cycle settled.  script_a's refreshInsights
\* catches a failed fetch itself (writing ST_ErrLoading) and resolves, so the
\* caller's then-handler runs on every outcome and writes ST_Generated;
\* part_000's refreshInsights lets the failure through to the caller's catch.
CycleStatus(v, failed) ==
    IF v = "script_a" THEN ST_Generated
    ELSE IF failed THEN ST_ErrUpdating ELSE ST_Generated

\* status after the initial load settled: untouched on success; on failure
\* script_a's own catch reports it, part_000's goes to the init catch
InitialLoadStatus(v, failed, old) ==
    IF ~failed THEN old
    ELSE IF v = "script_a" THEN ST_ErrLoading ELSE ST_InitFailed

\* onSomethingChanged(type, name)
onSomethingChanged(kind) ==
    /\ variant \in DebounceVariants
    /\ Delivers(kind)
    /\ DueTimers = {}
    /\ LET id == nNotify + 1
           newBurst == sinceLast >= DelayTicks
       IN  /\ timers' = clearTimeout(timers, loadingTimeoutId) \cup {Timer(id, DelayTicks)}
           /\ loadingTimeoutId' = id
           /\ nNotify' = id
           /\ burstStarts' = IF newBurst THEN 0 ELSE burstStarts
           /\ earlyStart' = IF newBurst THEN FALSE ELSE earlyStart
    /\ status' = ST_Loading
    /\ tableVisible' = FALSE
    /\ sinceLast' = 0
    /\ lastFailed' = FALSE
    /\ UNCHANGED <<cardVars, textVars, hostVars, orderVars, typers, initVars, splash, isRefreshing, fetches, writes, paramValue,
                   container, renderedFrom, nFetch, unserved>>

\* The debounce timer's callback: refreshInsights() is called with no check
\* of an earlier refresh.  Without the worksheet it resolves at once and the
\* then/finally handlers run in the same turn.
DebounceTimerFired ==
    /\ variant \in DebounceVariants
    /\ DueTimers # {}
    /\ splash # 0
    /\ LET t == CHOOSE x \in DueTimers : \A y \in DueTimers : x.id <= y.id
       IN  /\ timers' = AfterFire(timers, t)
           /\ IF sheetPresent
              THEN /\ fetches' = fetches \cup {t.id}
                   /\ nFetch' = nFetch + 1
                   /\ lastStarted' = t.id
                   /\ UNCHANGED <<loadingTimeoutId, domVars>>
              ELSE /\ container' = NotFoundContent
                   /\ renderedFrom' = NoTable
                   /\ status' = CycleStatus(variant, FALSE)
                   /\ tableVisible' = IF ShowsTableAfter(FALSE) THEN TRUE ELSE tableVisible
                   /\ loadingTimeoutId' = 0
                   /\ UNCHANGED <<fetches, nFetch, lastStarted>>
    /\ burstStarts' = burstStarts + 1
    /\ earlyStart' = (earlyStart \/ sinceLast < DelayTicks)
    /\ UNCHANGED <<cardVars, textVars, hostVars, typers, lastRendered, writeRejected, initVars, splash, isRefreshing, writes, paramValue,
                   nNotify, sinceLast, lastFailed, unserved>>

\* Whether the then-handler of a resolved fetch renders its rows.  The code
\* keeps no request id and cancels nothing: it renders whatever resolves.
RendersResult_latestOnly(id, latest) == id = latest

RendersResult(id, latest) == TRUE

\* What a resolved fetch leaves in the container
Outcome(v, id, latest, table, before, beforeFrom) ==
    IF RendersResult(id, latest)
    THEN Render(v, table, before, beforeFrom)
    ELSE [content |-> before, from |-> beforeFrom, threw |-> FALSE]

\* getSummaryDataAsync() of fetch id resolved with a table: the table is
\* rendered, then the caller's handlers run (then or catch, and finally)
FetchResolved_debounce(id, table) ==
    /\ variant \in DebounceVariants
    /\ id \in fetches
    /\ fetches' = fetches \ {id}
    /\ LET previewThrew == variant = "part_000" /\ PreviewThrows(table)
           r     == Outcome(variant, id, lastStarted, table, container, renderedFrom)
           threw == previewThrew \/ r.threw
       IN  /\ container' = IF previewThrew THEN container ELSE r.content
           /\ renderedFrom' = IF previewThrew THEN renderedFrom ELSE r.from
           /\ lastRendered' = IF threw THEN lastRendered ELSE id
           /\ IF id = 0
              THEN /\ status' = InitialLoadStatus(variant, threw, status)
                   /\ UNCHANGED <<tableVisible, loadingTimeoutId>>
              ELSE /\ status' = CycleStatus(variant, threw)
                   /\ tableVisible' = IF ShowsTableAfter(threw) THEN TRUE ELSE tableVisible
                   /\ loadingTimeoutId' = 0
    /\ UNCHANGED <<cardVars, textVars, hostVars, typers, lastStarted, writeRejected, initVars, splash, timers, isRefreshing, writes, paramValue,
                   histVars>>

\* getSummaryDataAsync() of fetch id rejected
FetchRejected_debounce(id) ==
    /\ variant \in DebounceVariants
    /\ id \in fetches
    /\ fetches' = fetches \ {id}
    /\ IF id = 0
       THEN /\ status' = InitialLoadStatus(variant, TRUE, status)
            /\ UNCHANGED <<tableVisible, loadingTimeoutId, lastFailed>>
       ELSE /\ status' = CycleStatus(variant, TRUE)
            /\ tableVisible' = IF ShowsTableAfter(TRUE) THEN TRUE ELSE tableVisible
            /\ loadingTimeoutId' = 0
            /\ lastFailed' = TRUE
    /\ container' = ContainerAfterFailure(variant, container)
    /\ UNCHANGED <<cardVars, textVars, hostVars, orderVars, typers, initVars, splash, timers, isRefreshing,
                   writes, paramValue, renderedFrom, nNotify, nFetch, sinceLast,
                   burstStarts, earlyStart, unserved>>

\* Time passes by one tick; a due timer fires first
Tick ==
    /\ NothingDue
    /\ \/ timers # {}
       \/ splash # NoTimer
       \/ variant \in DebounceVariants /\ sinceLast < DelayTicks
    /\ timers' = {Timer(t.id, t.rem - 1) : t \in timers}
    /\ splash' = IF splash = NoTimer THEN NoTimer ELSE splash - 1
    /\ sinceLast' = IF variant \in DebounceVariants /\ sinceLast < DelayTicks
                    THEN sinceLast + 1 ELSE sinceLast
    /\ UNCHANGED <<cardVars, textVars, hostVars, orderVars, typers, initVars, loadingTimeoutId, isRefreshing, fetches, writes,
                   paramValue, domVars, nNotify, nFetch, burstStarts, earlyStart,
                   lastFailed, unserved>>

-----------------------------------------------------------------------------
(* isRefreshing-flag variants: part_001 and part_002 *)

\* A faulty reset: the flag cleared on the success path only, not in finally
isRefreshingAfterSettle_noFinally(failed) == failed

\* isRefreshing once a change-triggered refresh settled: both variants reset
\* it in finally, whatever the outcome
isRefreshingAfterSettle(failed) == FALSE

\* A faulty guard: the handler never returns early
Skips_never(flag) == FALSE

\* if (isRefreshing) { log("... skipping"); return; }: whether the handler
\* returns without doing anything else, given the flag
Skips(flag) == flag

\* status a change-triggered refresh leaves behind
FlagStartStatus(v) == IF v = "part_001" THEN STATUS_LOADING_TEXT ELSE ST_Generated
FlagSettleStatus(v, failed, old) ==
    IF v = "part_002" THEN old
    ELSE IF failed THEN ST_ErrUpdating_p001 ELSE TITLE_TEXT

\* part_001 onSomethingChanged -> handleRefresh; part_002 handleChange.
\* Without the worksheet refreshInsights returns at once and the rest of the
\* handler (finally included) runs in the same turn.
handleChange(kind) ==
    /\ variant \in FlagVariants
    /\ Delivers(kind)
    /\ nNotify' = nNotify + 1
    /\ IF Skips(isRefreshing)
       THEN /\ unserved' = TRUE
            /\ UNCHANGED <<isRefreshing, fetches, nFetch, domVars, lastStarted>>
       ELSE /\ unserved' = FALSE
            /\ IF sheetPresent
               THEN /\ isRefreshing' = TRUE
                    /\ fetches' = fetches \cup {nNotify + 1}
                    /\ nFetch' = nFetch + 1
                    /\ lastStarted' = nNotify + 1
                    /\ status' = FlagStartStatus(variant)
                    /\ UNCHANGED <<tableVisible, container, renderedFrom>>
               ELSE /\ isRefreshing' = isRefreshingAfterSettle(FALSE)
                    /\ container' = NotFoundContent
                    /\ renderedFrom' = NoTable
                    /\ status' = FlagSettleStatus(variant, FALSE, FlagStartStatus(variant))
                    /\ UNCHANGED <<fetches, nFetch, tableVisible, lastStarted>>
    /\ UNCHANGED <<cardVars, textVars, hostVars, typers, lastRendered, writeRejected, initVars, timerVars, writes, paramValue,
                   sinceLast, burstStarts, earlyStart, lastFailed>>

\* getSummaryDataAsync() of fetch id resolved with a table.  part_002 catches
\* a throwing render inside refreshInsights and shows the error message; in
\* part_001 it reaches handleRefresh's catch (or nobody, for the initial load).
FetchResolved_flag(id, table) ==
    /\ variant \in FlagVariants
    /\ id \in fetches
    /\ fetches' = fetches \ {id}
    /\ LET r == Outcome(variant, id, lastStarted, table, container, renderedFrom)
       IN  /\ container' = r.content
           /\ renderedFrom' = r.from
           /\ lastRendered' = IF r.threw THEN lastRendered ELSE id
           /\ IF id = 0
              THEN UNCHANGED <<status, isRefreshing>>
              ELSE /\ status' = FlagSettleStatus(variant, r.threw, status)
                   /\ isRefreshing' = isRefreshingAfterSettle(r.threw)
    /\ UNCHANGED <<cardVars, textVars, hostVars, typers, lastStarted, writeRejected, initVars, timerVars, writes, paramValue, tableVisible,
                   histVars>>

\* getSummaryDataAsync() of fetch id rejected
FetchRejected_flag(id) ==
    /\ variant \in FlagVariants
    /\ id \in fetches
    /\ fetches' = fetches \ {id}
    /\ container' = ContainerAfterFailure(variant, container)
    /\ renderedFrom' = IF variant = "part_002" THEN NoTable ELSE renderedFrom
    /\ IF id = 0
       THEN UNCHANGED <<status, isRefreshing>>
       ELSE /\ status' = FlagSettleStatus(variant, TRUE, status)
            /\ isRefreshing' = isRefreshingAfterSettle(TRUE)
    /\ UNCHANGED <<cardVars, textVars, hostVars, orderVars, typers, initVars, timerVars, writes, paramValue, tableVisible,
                   histVars>>

-----------------------------------------------------------------------------
(* Parameter-driven variant: script_b (src/script.js 431-453) *)

\* A faulty handler: after cancelling a stored timer it returns
StartsCycle_onlyWhenIdle(hadTimer) == ~hadTimer

\* onFilterChanged goes on to setAiState("Loading") whether or not it has
\* just cancelled a timer
StartsCycle(hadTimer) == TRUE

\* onFilterChanged: a timer known to loadingTimeoutId is cleared, then
\* setAiState("Loading") is written; the timer is armed only when that write
\* has resolved
onFilterChanged ==
    /\ variant = "script_b"
    /\ Delivers("filter")
    /\ DueTimers = {}
    /\ nNotify' = nNotify + 1
    /\ timers' = clearTimeout(timers, loadingTimeoutId)
    /\ loadingTimeoutId' = 0
    /\ writes' = IF StartsCycle(loadingTimeoutId # 0)
                 THEN writes \cup {Write(nNotify + 1, "Loading")}
                 ELSE writes
    /\ UNCHANGED <<cardVars, textVars, hostVars, orderVars, typers, initVars, splash, isRefreshing, fetches, paramValue,
                   domVars, nFetch, sinceLast, burstStarts, earlyStart, lastFailed,
                   unserved>>

\* changeValueAsync of a pending write resolved
WriteResolved(w) ==
    /\ variant = "script_b"
    /\ w \in writes
    /\ writes' = writes \ {w}
    /\ paramValue' = w.value
    /\ IF w.value = "Loading"
       THEN /\ timers' = timers \cup {Timer(w.id, DelayTicks)}
            /\ loadingTimeoutId' = w.id
       ELSE /\ loadingTimeoutId' = 0
            /\ UNCHANGED timers
    /\ UNCHANGED <<cardVars, textVars, hostVars, orderVars, typers, initVars, splash, isRefreshing, fetches, domVars, histVars>>

\* changeValueAsync of a pending write rejected: logged; the Ready write's
\* finally still clears loadingTimeoutId
WriteRejected(w) ==
    /\ variant = "script_b"
    /\ w \in writes
    /\ writes' = writes \ {w}
    /\ writeRejected' = TRUE
    /\ loadingTimeoutId' = IF w.value = "Ready" THEN 0 ELSE loadingTimeoutId
    /\ UNCHANGED <<cardVars, textVars, hostVars, typers, lastStarted, lastRendered, initVars, splash, timers, isRefreshing, fetches, paramValue,
                   domVars, histVars>>

\* The timer armed by onFilterChanged fires: setAiState("Ready")
ParamTimerFired(t) ==
    /\ variant = "script_b"
    /\ t \in DueTimers
    /\ splash # 0
    /\ timers' = AfterFire(timers, t)
    /\ writes' = writes \cup {Write(t.id, "Ready")}
    /\ UNCHANGED <<cardVars, textVars, hostVars, orderVars, typers, initVars, splash, loadingTimeoutId, isRefreshing, fetches,
                   paramValue, domVars, histVars>>

-----------------------------------------------------------------------------
(* The system *)

NotifyKinds == {"filter", "parameter"}
FetchIds    == 0..MaxNotify

Next ==
    \/ DOMContentLoaded
    \/ DOMContentLoaded_demo
    \/ SplashTimeout
    \/ InitializeResolved
    \/ InitializeRejected
    \/ \E found \in BOOLEAN : FindAiStateParameterSettled(found)
    \/ \E found \in BOOLEAN : GetParametersSettled(found)
    \/ \E kind \in NotifyKinds : onSomethingChanged(kind)
    \/ DebounceTimerFired
    \/ \E id \in FetchIds, table \in Tables : FetchResolved_debounce(id, table)
    \/ \E id \in FetchIds : FetchRejected_debounce(id)
    \/ \E kind \in NotifyKinds : handleChange(kind)
    \/ \E id \in FetchIds, table \in Tables : FetchResolved_flag(id, table)
    \/ \E id \in FetchIds : FetchRejected_flag(id)
    \/ onFilterChanged
    \/ \E w \in writes : WriteResolved(w)
    \/ \E w \in writes : WriteRejected(w)
    \/ \E t \in timers : ParamTimerFired(t)
    \/ Tick

Spec == Init /\ [][Next]_vars

-----------------------------------------------------------------------------
(* The card renderer called on its own, and the typewriters it starts.     *)
(* Every typewriter is a timer of the page: the timer that is due first    *)
(* fires, and the time it waited has passed for the others too.  (In Spec  *)
(* above a card's body stands for the text handed to its typewriter.)      *)

\* speedPerChar of animateInsightBodies, ms
SpeedPerChar == 35

\* the stagger between cards of animateInsightBodies (index * 100), ms
StaggerMs == 100

\* part_001 line 14, ms
CARD_TYPING_SPEED_MS == 15

TypewriterVariants == {"script_a", "part_000", "part_001"}

\* One typewriter: the render that started it (gen) and its card, the text it
\* types, the element's textContent, the index of the next character, its
\* stage ("delay": the start timeout is pending, "typing": the interval is
\* armed, "done": the interval was cleared), the ms until its timer is due,
\* and how often highlightNumbers was applied to the element
Anim(gen, card, fullText, stage, due) ==
    [gen |-> gen, card |-> card, fullText |-> fullText, textContent |-> "", j |-> 0,
     stage |-> stage, due |-> due, marks |-> 0]

\* The first row whose read throws, Len + 1 when none does
FirstThrow(v, table) ==
    LET ix  == Indices(v, table.columns)
        bad == {i \in 1..Len(table.data) : RowThrows(v, table.data[i], ix)}
    IN  IF bad = {} THEN Len(table.data) + 1 ELSE SetMin(bad)

\* animateInsightBodies (script_a 221-244, part_000 217-236): runs once the
\* markup is in the container, one start timeout per card body, staggered
animateInsightBodies(v, table, gen) ==
    LET r == Rendered[v][table]
    IN  IF r.threw \/ r.content.kind # "cards" THEN <<>>
        ELSE [k \in 1..Len(r.content.cards) |->
                 Anim(gen, k, r.content.cards[k].body, "delay", (k - 1) * StaggerMs)]

\* part_001 lines 239-292: animateCardBody is called inside the row loop, for
\* every row with a narrative, so the rows before a throwing one have their
\* interval armed
animateCardBodies(table, gen) ==
    LET typed == {i \in 1..(FirstThrow("part_001", table) - 1) :
                     Narrative("part_001", table.columns, table.data[i]) # ""}
        nth(n) == CHOOSE i \in typed : Cardinality({m \in typed : m <= i}) = n
    IN  [n \in 1..Cardinality(typed) |->
            Anim(gen, nth(n), Narrative("part_001", table.columns, table.data[nth(n)]),
                 "typing", CARD_TYPING_SPEED_MS)]

NewAnims(v, table, gen) ==
    IF v \in {"script_a", "part_000"} THEN animateInsightBodies(v, table, gen)
    ELSE IF v = "part_001" THEN animateCardBodies(table, gen)
    ELSE <<>>

\* renderInsightsAsCards(columns, rows) / renderInsightsCards(columns, rows)
renderInsightsAsCards(table) ==
    /\ variant \in RenderVariants
    /\ nRender < MaxRenders
    /\ LET r == Render(variant, table, container, renderedFrom)
       IN  /\ container' = r.content
           /\ renderedFrom' = r.from
    /\ anims' = anims \o NewAnims(variant, table, nRender + 1)
    /\ nRender' = nRender + 1
    /\ called' = table
    /\ UNCHANGED <<textVars, hostVars, orderVars, typers, initVars, timerVars, isRefreshing, fetches, writes,
                   paramValue, status, tableVisible, histVars>>

Pending(k) == anims[k].stage # "done"

\* The typewriter timers that fire next
NextDue(k) ==
    /\ k \in DOMAIN anims
    /\ Pending(k)
    /\ \A m \in DOMAIN anims : Pending(m) => anims[k].due <= anims[m].due

\* The other timers once timer k fired after waiting anims[k].due
Elapsed(k, a) ==
    [m \in DOMAIN anims |->
        IF m = k THEN a
        ELSE IF Pending(m) THEN [anims[m] EXCEPT !.due = @ - anims[k].due]
        ELSE anims[m]]

\* The start timeout of animateInsightBodies fired: the interval is armed
StartTyping(k) ==
    /\ NextDue(k)
    /\ anims[k].stage = "delay"
    /\ anims' = Elapsed(k, [anims[k] EXCEPT !.stage = "typing", !.due = SpeedPerChar])
    /\ UNCHANGED <<nRender, called, container, renderedFrom, textVars, hostVars, orderVars, typers, initVars,
                   timerVars, isRefreshing, fetches, writes, paramValue, status,
                   tableVisible, histVars>>

\* The character the interval callback appends: fullText.charAt(j) is "" past
\* the end (script_a), fullText[i] and chars[i] are undefined there
CharOf(v, fullText, j) ==
    IF j < Len(fullText) THEN CharAt(fullText, j + 1)
    ELSE IF v = "script_a" THEN "" ELSE "undefined"

\* A faulty typewriter: part_001 highlights in every interval callback
Highlights_everyStep(v, finished) == v = "part_001"

\* Whether the interval callback applies highlightNumbers: part_001 only, in
\* the callback that typed the last character
Highlights(v, finished) == v = "part_001" /\ finished

\* The interval callback: one more character; past the last one the interval
\* is cleared and (part_001) element.innerHTML = highlightNumbers(textContent)
TypeNextChar(k) ==
    /\ NextDue(k)
    /\ anims[k].stage = "typing"
    /\ LET a        == anims[k]
           shown    == a.textContent \o CharOf(variant, a.fullText, a.j)
           finished == a.j + 1 >= Len(a.fullText)
           marked   == Highlights(variant, finished)
       IN  anims' = Elapsed(k,
              [a EXCEPT !.textContent = IF marked THEN MarkupText(highlightNumbers_p001(shown))
                                        ELSE shown,
                        !.j = a.j + 1,
                        !.marks = IF marked THEN a.marks + 1 ELSE a.marks,
                        !.stage = IF finished THEN "done" ELSE "typing",
                        !.due = IF variant = "part_001" THEN CARD_TYPING_SPEED_MS
                                ELSE SpeedPerChar])
    /\ UNCHANGED <<nRender, called, container, renderedFrom, textVars, hostVars, orderVars, typers, initVars,
                   timerVars, isRefreshing, fetches, writes, paramValue, status,
                   tableVisible, histVars>>

NextCards ==
    \/ \E table \in CardTables : renderInsightsAsCards(table)
    \/ \E k \in DOMAIN anims : StartTyping(k)
    \/ \E k \in DOMAIN anims : TypeNextChar(k)

\* The renderer runs in the variants that have one, on a table fetched from
\* the insights worksheet
InitCards ==
    /\ Init
    /\ variant \in RenderVariants
    /\ sheetPresent

SpecCards == InitCards /\ [][NextCards]_vars

-----------------------------------------------------------------------------
(* escapeHtml and highlightNumbers called on their own, on a given text *)

\* pieces a text is made of, in one run
MaxPieces == 2

\* A letter, the five characters escapeHtml rewrites, and the tails that
\* make a text look like a character reference
TextPieces == {"a", "&", "<", ">", "\"", "'", "lt;", "amp;", "#39;"}

RECURSIVE TextsOf(_)
TextsOf(n) ==
    IF n = 0 THEN {""}
    ELSE {t \o piece : t \in TextsOf(n - 1), piece \in TextPieces}

Texts == UNION {TextsOf(n) : n \in 0..MaxPieces}

\* The numbers the spec names
NumberInputs == {"$25K", "12.5%", "90K", "1,234.56"}

InitText ==
    /\ Loaded
    /\ variant \in RenderVariants
    /\ sheetPresent
    /\ input \in Texts \cup NumberInputs
    /\ applied = NotApplied

\* escapeHtml(input), in the variants that define it
escapeHtml_call ==
    /\ variant \in {"script_a", "part_000", "part_002"}
    /\ applied.fn # "escapeHtml"
    /\ applied' = [fn  |-> "escapeHtml",
                   out |-> IF variant = "part_002" THEN escapeHtml_p002(input)
                           ELSE escapeHtml(input)]
    /\ UNCHANGED <<input, cardVars, hostVars, orderVars, typers, initVars, timerVars, isRefreshing, fetches,
                   writes, paramValue, domVars, histVars>>

\* highlightNumbers(input), in the variants that define it
highlightNumbers_call ==
    /\ variant \in {"part_001", "part_002"}
    /\ applied.fn # "highlightNumbers"
    /\ applied' = [fn  |-> "highlightNumbers",
                   out |-> IF variant = "part_001" THEN highlightNumbers_p001(input)
                           ELSE highlightNumbers_p002(input)]
    /\ UNCHANGED <<input, cardVars, hostVars, orderVars, typers, initVars, timerVars, isRefreshing, fetches,
                   writes, paramValue, domVars, histVars>>

\* What a reader sees in the finished body of a card whose narrative is the
\* given (truthy) text: script_a and part_000 carry the escaped text in the
\* data-fulltext attribute and type it back through textContent; part_001
\* types the text and then assigns innerHTML = highlightNumbers(textContent);
\* part_002 assigns innerHTML = highlightNumbers(escapeHtml(text)).
FinishedBody(v, narrative) ==
    CASE v = "script_a" -> AttributeValue(escapeHtml(narrative), "'")
      [] v = "part_000" -> AttributeValue(escapeHtml(narrative), "\"")
      [] v = "part_001" -> MarkupText(highlightNumbers_p001(narrative))
      [] OTHER          -> MarkupText(highlightNumbers_p002(escapeHtml_p002(narrative)))

\* The body of a card is built from input as its narrative
cardBody_call ==
    /\ input # ""
    /\ applied.fn # "cardBody"
    /\ applied' = [fn |-> "cardBody", out |-> FinishedBody(variant, input)]
    /\ UNCHANGED <<input, cardVars, hostVars, orderVars, typers, initVars, timerVars, isRefreshing, fetches,
                   writes, paramValue, domVars, histVars>>

NextText == escapeHtml_call \/ highlightNumbers_call \/ cardBody_call

SpecText == InitText /\ [][NextText]_vars

-----------------------------------------------------------------------------
(* part_001: typeText on the status element, one interval callback at a time *)

\* notifications that reach handleRefresh, in one run
MaxRefreshes == 1

\* The tables a refresh of this specification resolves with
StatusTables == {TextTable}

\* typeText(element, text): the interval it starts; i is the closure's
\* counter, fired tells that its callback has run in the current period
Typer(txt) == [text |-> txt, i |-> 0, active |-> TRUE, fired |-> TRUE]

\* typeText leaves the intervals started earlier on the same element running
typeText(ts, txt) == Append(ts, Typer(txt))

ActiveTypers == {k \in DOMAIN typers : typers[k].active}

\* The splash setTimeout callback of part_001: typeText(statusEl(), TITLE_TEXT)
splashTypeText ==
    /\ variant = "part_001"
    /\ splash # NoTimer
    /\ splash' = NoTimer
    /\ status' = ""
    /\ typers' = typeText(typers, TITLE_TEXT)
    /\ UNCHANGED <<cardVars, textVars, hostVars, orderVars, initVars, loadingTimeoutId, timers,
                   isRefreshing, fetches, writes, paramValue, tableVisible, container,
                   renderedFrom, histVars>>

\* One callback of a typeText interval: it appends text[i] to whatever the
\* element holds, and clears the interval after the last character.  The
\* intervals have the same period, so within a period they run in the order
\* they were started.
typeTextInterval(k) ==
    /\ k \in ActiveTypers
    /\ ~typers[k].fired
    /\ \A h \in ActiveTypers : h < k => typers[h].fired
    /\ LET t == typers[k]
       IN  /\ status' = status \o CharAt(t.text, t.i + 1)
           /\ typers' = [typers EXCEPT ![k] = [t EXCEPT !.i = t.i + 1,
                                                      !.fired = TRUE,
                                                      !.active = t.i + 1 < Len(t.text)]]
    /\ UNCHANGED <<cardVars, textVars, hostVars, orderVars, initVars, timerVars, isRefreshing,
                   fetches, writes, paramValue, tableVisible, container, renderedFrom,
                   histVars>>

\* The interval's period (30 ms) passes: every running interval is due again
IntervalPeriod ==
    /\ ActiveTypers # {}
    /\ \A k \in ActiveTypers : typers[k].fired
    /\ typers' = [k \in DOMAIN typers |-> [typers[k] EXCEPT !.fired = FALSE]]
    /\ UNCHANGED <<cardVars, textVars, hostVars, orderVars, initVars, timerVars, isRefreshing,
                   fetches, writes, paramValue, domVars, histVars>>

\* handleRefresh after await refreshInsights(): the fetch resolved and the
\* table was rendered, then typeText(statusEl(), TITLE_TEXT); a throwing
\* renderer ends in the catch block
handleRefresh_resolved(id, table) ==
    /\ variant = "part_001"
    /\ id \in fetches \ {0}
    /\ fetches' = fetches \ {id}
    /\ LET r == Outcome(variant, id, lastStarted, table, container, renderedFrom)
       IN  /\ container' = r.content
           /\ renderedFrom' = r.from
           /\ lastRendered' = IF r.threw THEN lastRendered ELSE id
           /\ isRefreshing' = isRefreshingAfterSettle(r.threw)
           /\ lastFailed' = (lastFailed \/ r.threw)
           /\ IF r.threw
              THEN /\ status' = ST_ErrUpdating_p001
                   /\ UNCHANGED typers
              ELSE /\ status' = ""
                   /\ typers' = typeText(typers, TITLE_TEXT)
    /\ UNCHANGED <<cardVars, textVars, hostVars, lastStarted, writeRejected, initVars, timerVars,
                   writes, paramValue, tableVisible, nNotify, nFetch, sinceLast,
                   burstStarts, earlyStart, unserved>>

\* handleRefresh's catch block: the fetch was rejected
handleRefresh_rejected(id) ==
    /\ variant = "part_001"
    /\ id \in fetches \ {0}
    /\ fetches' = fetches \ {id}
    /\ status' = ST_ErrUpdating_p001
    /\ isRefreshing' = isRefreshingAfterSettle(TRUE)
    /\ lastFailed' = TRUE
    /\ UNCHANGED <<cardVars, textVars, hostVars, orderVars, typers, initVars, timerVars, writes,
                   paramValue, tableVisible, container, renderedFrom, nNotify, nFetch,
                   sinceLast, burstStarts, earlyStart, unserved>>

\* A notification reaches onSomethingChanged, which calls handleRefresh
\* unless a refresh is running
handleRefresh(kind) ==
    /\ nNotify < MaxRefreshes
    /\ handleChange(kind)

NextStatus ==
    \/ DOMContentLoaded
    \/ InitializeResolved
    \/ splashTypeText
    \/ handleRefresh("filter")
    \/ \E id \in FetchIds, table \in StatusTables : handleRefresh_resolved(id, table)
    \/ \E id \in FetchIds : handleRefresh_rejected(id)
    \/ \E k \in DOMAIN typers : typeTextInterval(k)
    \/ IntervalPeriod

InitStatus ==
    /\ Init
    /\ variant = "part_001"
    /\ sheetPresent

SpecStatus == InitStatus /\ [][NextStatus]_vars

-----------------------------------------------------------------------------
(* Properties *)

ChangeFetches == fetches \ {0}

\* C1: in the debounce variants at most one change-triggered
\* getSummaryDataAsync fetch is outstanding at any time (a timer that fires
\* while a refresh is in flight starts no second fetch).
C1_OneFetchOutstanding ==
    variant \in DebounceVariants => Cardinality(ChangeFetches) <= 1

\* C2: in the isRefreshing-flag variants at most one refreshInsights run is
\* in flight at any time, the initial load included.
C2_OneRunInFlight ==
    variant \in FlagVariants => Cardinality(fetches) <= 1

\* C3: in the debounce variants at most one debounce timer is pending.
C3_OnePendingTimer ==
    variant \in DebounceVariants => Cardinality(timers) <= 1

\* The current burst is over: the delay has elapsed since its last
\* notification and no debounce timer is left
BurstOver == nNotify > 0 /\ sinceLast = DelayTicks /\ timers = {}

\* C4: in the debounce variants a burst of notifications, each less than the
\* delay after the one before, starts exactly one refresh, and only once the
\* delay has elapsed since the last of them.
C4_OneRefreshPerBurst ==
    variant \in DebounceVariants =>
        /\ burstStarts <= 1
        /\ ~earlyStart
        /\ BurstOver => burstStarts = 1

\* C5: in the parameter-driven variant a burst of FilterChanged events leaves
\* at most one debounce timer pending (hence one "Ready" write), also when an
\* event arrives before the "Loading" write of an earlier one resolved.
C5_OneParamTimer ==
    variant = "script_b" => Cardinality(timers) <= 1

\* Nothing is in flight in a flag variant
FlagIdle == variant \in FlagVariants /\ ~isRefreshing /\ fetches = {}

\* C6 (as claimed): in the flag variants a notification that arrives while a
\* refresh is in flight is not lost: when the refresh has settled and nothing
\* is in flight, no notification is left without a refresh started after it.
C6_NotificationNotLost == FlagIdle => ~unserved

\* C6 (amended): in the flag variants a notification that arrives while
\* isRefreshing is true is skipped for good: every fetch is started either by
\* the initial load or in the handler of a notification delivered while
\* isRefreshing was false, and never by anything that happens later.
C6_SkippedForGood ==
    [][ (variant \in FlagVariants /\ nFetch' > nFetch) =>
            \/ phase = "initializing"
            \/ nNotify' = nNotify + 1 /\ ~isRefreshing ]_vars

\* a skipped notification, and the refresh that made it skip has settled
C6_Witness == FlagIdle /\ unserved

\* C7: in the flag variants isRefreshing is true exactly while a
\* change-triggered refresh is outstanding: once it has settled, whatever the
\* outcome, the flag is false again.
C7_FlagClearedWhenSettled ==
    variant \in FlagVariants => (isRefreshing <=> ChangeFetches # {})

\* a change-triggered refresh of part_001 failed and has settled
C7_Witness ==
    /\ variant = "part_001"
    /\ status = ST_ErrUpdating_p001
    /\ ~isRefreshing
    /\ fetches = {}

\* C8: in every variant the fetches ever started are at most the
\* notifications received plus one (the initial load): no automatic retry.
C8_NoAutomaticRetry == nFetch <= nNotify + 1

\* a change-triggered fetch failed, everything has settled, and every
\* notification and the initial load had their one fetch
C8_Witness ==
    /\ lastFailed
    /\ fetches = {}
    /\ timers = {}
    /\ nFetch = nNotify + 1

\* C9: in the debounce variants, once a change-triggered cycle whose fetch
\* failed has settled, the status is an error message until the next
\* notification.
C9_ErrorStatusAfterFailedFetch ==
    (variant \in DebounceVariants /\ lastFailed) => status \in ErrorTexts

Nullish == {"", "Null", "(Null)"}

PlaceholderOf(v) ==
    CASE v = "script_a" -> Placeholder_a
      [] v = "part_000" -> Placeholder_p000
      [] v = "part_001" -> Placeholder_p001
      [] OTHER -> Placeholder_p002

\* C10: in every renderer, a row whose narrative is empty, "Null" or
\* "(Null)" gets the renderer's fixed placeholder as its card body, never the
\* raw value.
C10_NullishGetsPlaceholder ==
    container.kind = "cards" =>
        \A i \in 1..Len(container.cards) :
            Narrative(variant, renderedFrom.columns, renderedFrom.data[i]) \in Nullish
                => /\ container.cards[i].isPlaceholder
                   /\ container.cards[i].body = PlaceholderOf(variant)

\* A column set with a column named "Estimated Spend - Insight1" or with a
\* column whose name contains "Insight"
HasInsightColumn(columns) ==
    \E i \in 1..Len(columns) :
        columns[i] = "Estimated Spend - Insight1" \/ Contains(columns[i], "Insight")

\* C11: in every card renderer, for a column set that holds a column named
\* "Estimated Spend - Insight1" or any column whose name contains "Insight",
\* the narrative index is defined and every card's body is the row's cell of
\* that column.
C11_NarrativeColumnResolved ==
    (nRender > 0 /\ called.data # <<>> /\ HasInsightColumn(called.columns)) =>
        LET idx == Indices(variant, called.columns).insight
        IN  /\ idx # 0
            /\ (container.kind = "cards" /\ renderedFrom = called) =>
                   \A i \in 1..Len(container.cards) :
                       (idx <= Len(called.data[i]) /\ called.data[i][idx] # "")
                           => container.cards[i].body = called.data[i][idx]

\* The emphasis element a variant's highlightNumbers wraps a number in
EmphasisOpen(v)  == IF v = "part_001" THEN SpanOpen ELSE StrongOpen
EmphasisClose(v) == IF v = "part_001" THEN SpanClose ELSE StrongClose

\* C12: both highlightNumbers implementations wrap each of "$25K", "12.5%",
\* "90K" and "1,234.56" as one emphasized token: the result is the whole
\* input inside one emphasis element, nothing of it outside.
C12_NumberIsOneToken ==
    (applied.fn = "highlightNumbers" /\ input \in NumberInputs) =>
        applied.out = EmphasisOpen(variant) \o input \o EmphasisClose(variant)

\* C13: for every text, escapeHtml followed by the decoding of the character
\* references it writes gives the text back (so escapeHtml is injective),
\* and the escaped text holds no raw <, > or ".
C13_EscapeRoundTrip ==
    applied.fn = "escapeHtml" =>
        /\ DecodeEntities(applied.out) = input
        /\ \A i \in 1..Len(applied.out) : ~InChars(CharAt(applied.out, i), "<>\"")

\* a text that reads as a character reference was escaped
C13_Witness == applied.fn = "escapeHtml" /\ input = "&lt;" /\ applied.out = "&amp;lt;"

\* C14: in animateCardBody (part_001), for every card, highlightNumbers is
\* applied exactly once, and only when every character of the card's full
\* text has been revealed: never while the reveal is partial.
C14_HighlightAfterFullReveal ==
    variant = "part_001" =>
        \A k \in DOMAIN anims :
            /\ anims[k].stage = "typing" => anims[k].marks = 0
            /\ anims[k].stage = "done" => anims[k].marks = 1
            /\ anims[k].marks > 0 => anims[k].j >= Len(anims[k].fullText)

\* a card of several characters was typed to its end and highlighted
C14_Witness ==
    /\ variant = "part_001"
    /\ \E k \in DOMAIN anims : /\ anims[k].stage = "done"
                               /\ anims[k].fullText = "$5K"
                               /\ anims[k].marks = 1

\* C15: in every variant, without a worksheet named INSIGHTS_WORKSHEET_NAME a
\* refresh issues no fetch, puts the fixed "not found" message in the card
\* container and settles at once without an error, leaving the coordinator
\* idle: isRefreshing is false (flag variants) and loadingTimeoutId is null
\* unless a later notification's timer is pending (debounce variants).
C15_SourceNotFound ==
    (~sheetPresent /\ variant \notin ParamVariants) =>
        /\ nFetch = 0 /\ fetches = {}
        /\ ~isRefreshing
        /\ timers = {} => loadingTimeoutId = 0
        /\ (phase = "ready" /\ nRender = 0) =>
              /\ container.kind = "notFound"
              /\ status \notin ErrorTexts

\* without the worksheet, a change-triggered refresh ran and settled
C15_Witness ==
    /\ ~sheetPresent
    /\ nNotify > 0
    /\ timers = {}
    /\ container.kind = "notFound"
    /\ status \in {ST_Generated, TITLE_TEXT}

\* C16: in every card renderer, for a table of zero rows the container shows
\* only the fixed "No insights for the current selection." message: no card
\* of the previous refresh remains and the call starts no typewriter.
C16_NoRowsShowsMessage ==
    (nRender > 0 /\ called.data = <<>>) =>
        /\ container.kind = "noInsights"
        /\ container.cards = <<>>
        /\ \A k \in DOMAIN anims : anims[k].gen # nRender

\* cards with typewriters were rendered, then a table of zero rows
C16_Witness ==
    /\ nRender = 2
    /\ called = EmptyTable
    /\ container.kind = "noInsights"
    /\ \E k \in DOMAIN anims : anims[k].gen = 1

\* A table as the host returns it: every row has one cell per column
WellFormed(table) == \A i \in 1..Len(table.data) : Len(table.data[i]) = Len(table.columns)

\* C18: in every card renderer, a render of n > 0 rows replaces the whole
\* previous content of the container by exactly n cards, the i-th card built
\* from the i-th row in the order the host returned them, none carried over.
C18_CardsFollowRows ==
    (nRender > 0 /\ called.data # <<>> /\ WellFormed(called)) =>
        /\ container.kind = "cards"
        /\ Len(container.cards) = Len(called.data)
        /\ \A i \in 1..Len(container.cards) :
              /\ container.cards[i].brand =
                     Cell(called.data[i], Indices(variant, called.columns).brand)
              /\ ~container.cards[i].isPlaceholder =>
                     container.cards[i].body = Narrative(variant, called.columns, called.data[i])

\* a second render, of two rows the host did not return in sorted order,
\* over the cards of an earlier render
C18_Witness ==
    /\ nRender = 2
    /\ called = PairTable
    /\ \E k \in DOMAIN anims : anims[k].gen = 1
    /\ Len(container.cards) = 2
    /\ container.cards[1].brand = "Bolt"
    /\ container.cards[2].brand = "Acme"

\* The first n characters of s
Prefix(s, n) == SubSeq(s, 1, n)

\* C17: in every card typewriter the text shown in a card is at every step a
\* prefix of the card's full text, grown by one character per callback in
\* index order, and once the card's interval is cleared the text shown is
\* the full text.
C17_TypewriterShowsPrefix ==
    \A k \in DOMAIN anims :
        /\ anims[k].stage # "done" =>
              /\ anims[k].j <= Len(anims[k].fullText)
              /\ anims[k].textContent = Prefix(anims[k].fullText, anims[k].j)
        /\ anims[k].stage = "done" => anims[k].textContent = anims[k].fullText

\* The handling of a rejected getSummaryDataAsync
FetchFailureHandled ==
    \E id \in FetchIds : FetchRejected_debounce(id) \/ FetchRejected_flag(id)

C20_SkippedNotificationChangesNothing ==
    [][ (variant \in FlagVariants /\ isRefreshing /\ nNotify' = nNotify + 1) =>
            UNCHANGED <<isRefreshing, status, container, fetches>> ]_vars

\* a notification was skipped and the refresh it ran into is still in flight
C20_Witness == variant \in FlagVariants /\ isRefreshing /\ unserved /\ fetches # {}

-----------------------------------------------------------------------------
(* Fetches in flight while notifications keep arriving *)

\* The renderer runs to its end on this table (a ragged row makes it throw)
RendersCleanly(v, table) ==
    ~Rendered[v][table].threw /\ ~(v = "part_000" /\ PreviewThrows(table))

\* C21: in every variant a fetch in flight is never cancelled or discarded:
\* whenever getSummaryDataAsync resolves with a table the renderer accepts,
\* the container holds the rendering of that table afterwards, whatever
\* notifications arrived since the fetch was started.
C21_ResolvedFetchIsRendered ==
    [][\A id \in FetchIds, table \in Tables :
          ( /\ FetchResolved_debounce(id, table) \/ FetchResolved_flag(id, table)
            /\ RendersCleanly(variant, table) )
          => /\ container' = Rendered[variant][table].content
             /\ lastRendered' = id]_vars

\* A change-triggered fetch resolved and was rendered while the timer of a
\* later notification was pending
C21_Witness ==
    /\ variant \in DebounceVariants
    /\ timers # {}
    /\ lastRendered > 0
    /\ container.kind = "cards"
    /\ status = CycleStatus(variant, FALSE)

-----------------------------------------------------------------------------
(* Initialization failures *)

\* Nothing that needs the dashboard has been set up or started
Disabled ==
    /\ ~filterSubscribed
    /\ paramSub = "none"
    /\ ~aiStateParam
    /\ timers = {} /\ loadingTimeoutId = 0
    /\ fetches = {} /\ nFetch = 0
    /\ writes = {} /\ paramValue = "unset"
    /\ nNotify = 0

\* The message the failing step leaves in the status element; part_002 writes
\* to the log and the loading screen only
FailureStatus(v, ph) ==
    CASE v = "part_002" -> ST_Initial
      [] ph = "demo" -> ST_Demo
      [] v = "part_001" -> ST_InitFailed_p001
      [] OTHER -> ST_InitFailed

-----------------------------------------------------------------------------
(* Order of overlapping refreshes in the debounce variants *)

\* C23: in the debounce variants the cards displayed are those of the fetch
\* that was started last: a fetch started earlier that completes later never
\* overwrites the rendering of a fetch started after it, so the id of the
\* fetch rendered last never goes down, and once no timer is pending and no
\* fetch is outstanding it is not older than a later fetch that was rendered.
C23_LatestFetchWins ==
    [][(variant \in DebounceVariants) => (lastRendered <= lastRendered')]_vars

-----------------------------------------------------------------------------
(* Loading presentation of the debounce variants *)

\* C24: in the debounce variants, whenever a debounce timer is pending or a
\* change-triggered refresh is in flight, the insights table is hidden and
\* the status shows the loading text; in particular an older refresh that
\* completes does not make the table visible while a newer notification's
\* timer is pending.
C24_LoadingWhileBusy ==
    (variant \in DebounceVariants /\ (timers # {} \/ ChangeFetches # {}))
        => (~tableVisible /\ status = ST_Loading)

-----------------------------------------------------------------------------
(* Progress of the debounce variants *)

\* Some outstanding getSummaryDataAsync call settles, one way or the other
FetchSettles ==
    \E id \in FetchIds :
        \/ \E table \in Tables : FetchResolved_debounce(id, table)
        \/ FetchRejected_debounce(id)

\* Some pending changeValueAsync call settles, one way or the other
WriteSettles == \E w \in writes : WriteResolved(w) \/ WriteRejected(w)

\* The browser runs a timer callback once it is due and lets time pass when
\* none is due; the host settles every getSummaryDataAsync call and every
\* changeValueAsync call.
SpecFair ==
    /\ Spec
    /\ WF_vars(Tick)
    /\ WF_vars(SplashTimeout)
    /\ WF_vars(DebounceTimerFired)
    /\ WF_vars(FetchSettles)
    /\ WF_vars(\E t \in timers : ParamTimerFired(t))
    /\ WF_vars(WriteSettles)

\* No debounce timer pending and no change-triggered fetch outstanding
Settled == timers = {} /\ ChangeFetches = {}

\* C25: in the debounce variants, when every armed timer fires or is
\* cancelled and every fetch settles, a hidden insights table eventually
\* becomes visible again; it is never hidden once everything has settled,
\* whether the last fetch succeeded or failed, and only a notification can
\* hide it.
C25_TableShownAgain ==
    /\ [](variant \in DebounceVariants /\ Settled => tableVisible)
    /\ (variant \in DebounceVariants /\ ~tableVisible) ~> tableVisible
    /\ [][(variant \in DebounceVariants /\ tableVisible /\ ~tableVisible')
              => nNotify' = nNotify + 1]_vars

\* Everything has settled after a change cycle whose fetch failed, and the
\* table is visible
C25_Witness ==
    /\ variant \in DebounceVariants
    /\ Settled
    /\ nNotify > 0
    /\ lastFailed
    /\ tableVisible

-----------------------------------------------------------------------------
(* What the finished card body shows *)

\* C26: for every narrative text, also one that holds &, <, >, " or ', the
\* visible text of the finished card body (emphasis elements removed,
\* character references decoded) is the narrative text: highlighting never
\* splits a character reference written by escapeHtml (part_002) and never
\* turns part of the narrative into markup (part_001).
C26_BodyShowsNarrative ==
    applied.fn = "cardBody" => applied.out = input

-----------------------------------------------------------------------------
(* The status typewriter of part_001 *)

\* C27: in part_001 at most one typeText interval writes to the status
\* element at any time, and once every interval has finished, no refresh is
\* in flight and none has failed, the status text is exactly TITLE_TEXT: a
\* refresh that runs while an earlier typeText is still typing leaves no
\* interleaved or extra characters.
C27_OneStatusTypewriter ==
    /\ Cardinality(ActiveTypers) <= 1
    /\ (typers # <<>> /\ ActiveTypers = {} /\ ~isRefreshing /\ ~lastFailed)
          => status = TITLE_TEXT

-----------------------------------------------------------------------------
(* The AI state parameter of the parameter-driven variant *)

\* C28: in the parameter-driven variant, as long as no changeValueAsync
\* write is rejected, the parameter is never left at "Loading": once no
\* timer is pending and no write is outstanding after a FilterChanged event
\* its value is "Ready", and a value of "Loading" always leads to "Ready"
\* when timers fire and writes settle.
C28_ParameterEndsReady ==
    /\ []((variant = "script_b" /\ nNotify > 0 /\ ~writeRejected
             /\ timers = {} /\ writes = {}) => paramValue = "Ready")
    /\ (variant = "script_b" /\ paramValue = "Loading")
          ~> (paramValue = "Ready" \/ writeRejected)

\* All timers and writes have settled after FilterChanged events that came
\* close enough for a Loading write to overlap an earlier cycle
C28_Witness ==
    /\ variant = "script_b"
    /\ nNotify = MaxNotify
    /\ ~writeRejected
    /\ timers = {} /\ writes = {}
    /\ paramValue = "Ready"

=============================================================================
